---- MODULE Spec2Model ----
(***************************************************************************)
(* Model of static/js/script.js (class IdentityPlatform): field and file   *)
(* validators, the image quality heuristic, the form submit handling and   *)
(* the webcam capture pipeline.                                            *)
(*                                                                         *)
(* Strings whose characters matter (field values) are sequences of         *)
(* characters.  An ASCII character is the one-character string; any other  *)
(* character is the string "U+XXXX" naming its code point.  Quality scores *)
(* are IEEE 754 doubles, computed operation by operation as the code does. *)
(***************************************************************************)
EXTENDS Integers, Sequences, FiniteSets, TLC

VARIABLES
    call,            \* pure-function harness: the last direct call and its result
    value,           \* field.value of every text/number/select field
    fieldError,      \* per field: the .field-error divs in its parent, in document order
    borderColor,     \* per field: field.style.borderColor
    files,           \* input.files of the file input (a sequence of files)
    formError,       \* id of the .form-error-message div in the document, 0 if none
    formTimers,      \* ids of form-error divs whose 5 s removal timer is pending
    submits,         \* number of submit events handled so far
    lastSubmit,      \* outcome of the last submit event
    submitDisabled,  \* submitBtn.disabled
    markup,          \* facts of the page markup the code branches on
    cam,             \* state of the getUserMedia request
    captureDisabled, \* captureBtn.disabled
    webcamErrors,    \* number of webcam error divs in .webcam-section
    blobs,           \* pending canvas.toBlob callbacks (the blob each will deliver)
    captures,        \* number of capture clicks handled so far
    captureMsgs,     \* number of capture-success messages currently displayed
    selections,      \* number of files that entered the file input so far
    reads,           \* pending FileReader loads (selection tokens)
    decodes,         \* pending Image decodes (selection tokens)
    previews,        \* .image-preview divs in the file input's parent, in order
    feedback,        \* selection token of the displayed .quality-feedback, 0 if none
    lastChange       \* the last handled change event of the file input

vars == <<call, value, fieldError, borderColor, files, formError, formTimers,
          submits, lastSubmit, submitDisabled, markup, cam, captureDisabled,
          webcamErrors, blobs, captures, captureMsgs, selections, reads,
          decodes, previews, feedback, lastChange>>

----------------------------------------------------------------------------
(* Bounds of the model *)

MaxAgeLen == 3
MaxNameLen == 3
MaxPixels == 2
ScorePad == 20
MaxSubmits == 2
MaxSelections == 2
MaxCaptures == 2
MaxFormSelections == 1

----------------------------------------------------------------------------
(* Characters and strings *)

\* the characters String.prototype.trim removes, \s matches and parseInt
\* skips: WhiteSpace and LineTerminator of ECMAScript
WhiteSpace ==
    {"\t", "\n", "U+000B", "\f", "\r", " ", "U+00A0", "U+1680",
     "U+2000", "U+2001", "U+2002", "U+2003", "U+2004", "U+2005", "U+2006",
     "U+2007", "U+2008", "U+2009", "U+200A", "U+2028", "U+2029", "U+202F",
     "U+205F", "U+3000", "U+FEFF"}

Letters == {"a","b","c","d","e","f","g","h","i","j","k","l","m",
            "n","o","p","q","r","s","t","u","v","w","x","y","z",
            "A","B","C","D","E","F","G","H","I","J","K","L","M",
            "N","O","P","Q","R","S","T","U","V","W","X","Y","Z"}

Digits == {"0","1","2","3","4","5","6","7","8","9"}

DigitVal(c) ==
    CASE c = "0" -> 0 [] c = "1" -> 1 [] c = "2" -> 2 [] c = "3" -> 3
      [] c = "4" -> 4 [] c = "5" -> 5 [] c = "6" -> 6 [] c = "7" -> 7
      [] c = "8" -> 8 [] c = "9" -> 9
      [] c \in {"a", "A"} -> 10 [] c \in {"b", "B"} -> 11
      [] c \in {"c", "C"} -> 12 [] c \in {"d", "D"} -> 13
      [] c \in {"e", "E"} -> 14 [] c \in {"f", "F"} -> 15
      [] OTHER -> 99

RECURSIVE TrimStart(_)
TrimStart(s) ==
    IF s # <<>> /\ Head(s) \in WhiteSpace THEN TrimStart(Tail(s)) ELSE s

RECURSIVE TrimEnd(_)
TrimEnd(s) ==
    IF s # <<>> /\ s[Len(s)] \in WhiteSpace
    THEN TrimEnd(SubSeq(s, 1, Len(s) - 1)) ELSE s

\* String.prototype.trim
Trim(s) == TrimEnd(TrimStart(s))

\* /^[a-zA-Z\s]+$/.test(s)
NameRegexTest(s) ==
    /\ Len(s) >= 1
    /\ \A i \in 1..Len(s) : s[i] \in Letters \cup WhiteSpace

\* the Number NaN; every other result of ParseInt is Num(n)
NaN == [isNaN |-> TRUE, n |-> 0]
Num(n) == [isNaN |-> FALSE, n |-> n]

\* the longest prefix of s made of digits of the radix, folded into a number;
\* acc is the number read so far
RECURSIVE ParseDigits(_, _, _)
ParseDigits(s, radix, acc) ==
    IF s # <<>> /\ DigitVal(Head(s)) < radix
    THEN ParseDigits(Tail(s), radix, acc * radix + DigitVal(Head(s)))
    ELSE acc

\* parseInt(s) with no radix argument: leading white space is skipped, then an
\* optional sign, then an optional 0x/0X prefix selecting radix 16, then the
\* longest run of digits; NaN when that run is empty
ParseInt(str) ==
    LET s0     == TrimStart(str)
        neg    == s0 # <<>> /\ Head(s0) = "-"
        s1     == IF s0 # <<>> /\ Head(s0) \in {"+", "-"} THEN Tail(s0) ELSE s0
        hex    == Len(s1) >= 2 /\ s1[1] = "0" /\ s1[2] \in {"x", "X"}
        radix  == IF hex THEN 16 ELSE 10
        s2     == IF hex THEN SubSeq(s1, 3, Len(s1)) ELSE s1
        hasDig == s2 # <<>> /\ DigitVal(Head(s2)) < radix
        n      == ParseDigits(s2, radix, 0)
    IN  IF ~hasDig THEN NaN ELSE IF neg THEN Num(0 - n) ELSE Num(n)

----------------------------------------------------------------------------
(* Validators *)

validTypes == {"image/jpeg", "image/jpg", "image/png"}

maxSize == 5 * 1024 * 1024

validateImageFile_strictSize(file) ==
    IF file.type \notin validTypes THEN FALSE
    ELSE IF file.size >= maxSize THEN FALSE
    ELSE TRUE

validateImageFile(file) ==
    IF file.type \notin validTypes THEN FALSE
    ELSE IF file.size > maxSize THEN FALSE
    ELSE TRUE

MsgNameShort == "Name must be at least 2 characters long"
MsgNameChars == "Name can only contain letters and spaces"
MsgAppId     == "Application ID must be at least 3 characters long"
MsgAge       == "Age must be between 16 and 100"
MsgFileBlur  == "Please upload a valid image file (JPEG, PNG) under 5MB"
MsgSelect    == "Please select an option"
MsgRequired  == "This field is required"
MsgFileForm  == "Please upload a valid image file (JPEG, PNG)"

Valid == [isValid |-> TRUE, errorMessage |-> ""]
Invalid(msg) == [isValid |-> FALSE, errorMessage |-> msg]

CheckFullName_charsFirst(raw) ==
    LET v == Trim(raw)
    IN  IF ~NameRegexTest(v) THEN Invalid(MsgNameChars)
        ELSE IF Len(v) < 2 THEN Invalid(MsgNameShort)
        ELSE Valid

\* validateField, case 'text', field.name === 'full_name'
CheckFullName(raw) ==
    LET v == Trim(raw)
    IN  IF Len(v) < 2 THEN Invalid(MsgNameShort)
        ELSE IF ~NameRegexTest(v) THEN Invalid(MsgNameChars)
        ELSE Valid

\* validateField, case 'text', field.name === 'application_id'
CheckApplicationId(raw) ==
    IF Len(Trim(raw)) < 3 THEN Invalid(MsgAppId) ELSE Valid

\* validateField, case 'number', field.name === 'age'
CheckAge(raw) ==
    LET age == ParseInt(Trim(raw))
    IN  IF age.isNaN \/ age.n < 16 \/ age.n > 100
        THEN Invalid(MsgAge) ELSE Valid

\* validateField, case 'select-one'
CheckSelect(raw) ==
    IF Trim(raw) = <<>> THEN Invalid(MsgSelect) ELSE Valid

\* validateField, case 'file'
CheckFile(fs) ==
    IF Len(fs) > 0 /\ ~validateImageFile(fs[1]) THEN Invalid(MsgFileBlur)
    ELSE Valid

----------------------------------------------------------------------------
(* Numbers: IEEE 754 binary64 arithmetic, as the code computes with it *)

\* Naturals of any size are sequences of digits in base W = 2^14, least
\* significant digit first and the last digit not 0; <<>> is 0.  (The
\* integers of TLC are 32 bits wide; a product of two digits fits.)
W == 16384
DigitBits == 14

Pow2(k) == 2 ^ k

RECURSIVE BNorm(_)
BNorm(a) ==
    IF a # <<>> /\ a[Len(a)] = 0 THEN BNorm(SubSeq(a, 1, Len(a) - 1)) ELSE a

\* the natural k < 2^31 as digits
RECURSIVE BFromNat(_)
BFromNat(k) ==
    IF k = 0 THEN <<>> ELSE <<k % W>> \o BFromNat(k \div W)

\* a + b + c, c a carry
RECURSIVE BAddC(_, _, _)
BAddC(a, b, c) ==
    IF a = <<>> /\ b = <<>> THEN BFromNat(c)
    ELSE IF a = <<>> THEN BAddC(b, a, c)
    ELSE LET x == Head(a) + (IF b = <<>> THEN 0 ELSE Head(b)) + c
         IN  <<x % W>> \o BAddC(Tail(a), IF b = <<>> THEN b ELSE Tail(b),
                                x \div W)

BAdd(a, b) == BAddC(a, b, 0)

\* a - b - c for a >= b + c, before the leading zeros are removed
RECURSIVE BSubC(_, _, _)
BSubC(a, b, c) ==
    IF a = <<>> THEN <<>>
    ELSE LET x == Head(a) - (IF b = <<>> THEN 0 ELSE Head(b)) - c
         IN  IF x < 0
             THEN <<x + W>> \o BSubC(Tail(a), IF b = <<>> THEN b ELSE Tail(b), 1)
             ELSE <<x>> \o BSubC(Tail(a), IF b = <<>> THEN b ELSE Tail(b), 0)

BSub(a, b) == BNorm(BSubC(a, b, 0))

\* a < b, comparing the digits from position i downwards (equal lengths)
RECURSIVE BLessAt(_, _, _)
BLessAt(a, b, i) ==
    IF i = 0 THEN FALSE
    ELSE IF a[i] # b[i] THEN a[i] < b[i]
    ELSE BLessAt(a, b, i - 1)

BLess(a, b) ==
    IF Len(a) # Len(b) THEN Len(a) < Len(b) ELSE BLessAt(a, b, Len(a))

\* a * k + c for a digit-sized k (k < 2^16)
RECURSIVE BMulSmall(_, _, _)
BMulSmall(a, k, c) ==
    IF a = <<>> THEN BFromNat(c)
    ELSE LET x == Head(a) * k + c
         IN  <<x % W>> \o BMulSmall(Tail(a), k, x \div W)

\* a * W
BShiftDigit(a) == IF a = <<>> THEN a ELSE <<0>> \o a

RECURSIVE BMul(_, _)
BMul(a, b) ==
    IF a = <<>> \/ b = <<>> THEN <<>>
    ELSE BAdd(BMulSmall(a, Head(b), 0), BShiftDigit(BMul(a, Tail(b))))

\* <<a \div d, a % d>> for 0 < d < 2^16: the long division from digit i
\* downwards, rem the remainder so far and q the digits of the quotient
RECURSIVE BDivAt(_, _, _, _, _)
BDivAt(a, d, i, rem, q) ==
    IF i = 0 THEN <<BNorm(q), rem>>
    ELSE LET x == rem * W + a[i]
         IN  BDivAt(a, d, i - 1, x % d, <<x \div d>> \o q)

BDivSmall(a, d) == BDivAt(a, d, Len(a), 0, <<>>)

\* a * 2^k and a \div 2^k
BShl(a, k) ==
    IF a = <<>> THEN a
    ELSE [i \in 1..(k \div DigitBits) |-> 0]
           \o BMulSmall(a, Pow2(k % DigitBits), 0)

BShr(a, k) ==
    IF k \div DigitBits >= Len(a) THEN <<>>
    ELSE BDivSmall(SubSeq(a, k \div DigitBits + 1, Len(a)),
                   Pow2(k % DigitBits))[1]

\* the bit of weight 2^k of a
BBit(a, k) ==
    IF k \div DigitBits >= Len(a) THEN 0
    ELSE (a[k \div DigitBits + 1] \div Pow2(k % DigitBits)) % 2

\* a % 2^k = 0
BLowBitsZero(a, k) ==
    /\ \A i \in 1..(k \div DigitBits) : i > Len(a) \/ a[i] = 0
    /\ \/ k \div DigitBits >= Len(a)
       \/ a[k \div DigitBits + 1] % Pow2(k % DigitBits) = 0

RECURSIVE NatBitLen(_)
NatBitLen(x) == IF x = 0 THEN 0 ELSE 1 + NatBitLen(x \div 2)

\* the number of bits of a
BitLen(a) ==
    IF a = <<>> THEN 0
    ELSE DigitBits * (Len(a) - 1) + NatBitLen(a[Len(a)])

\* the natural a < 2^31 of the digits a
RECURSIVE BToNat(_)
BToNat(a) == IF a = <<>> THEN 0 ELSE Head(a) + W * BToNat(Tail(a))

\* <<q, r>> with 2^k * rem + (x % 2^k) = (the bits appended to q) * d + r:
\* the long division of the k low bits of x by d <= 2^30, bit by bit
RECURSIVE DivBits(_, _, _, _, _)
DivBits(rem, x, d, k, q) ==
    IF k = 0 THEN <<q, rem>>
    ELSE LET r2 == 2 * rem + ((x \div Pow2(k - 1)) % 2)
         IN  IF r2 >= d THEN DivBits(r2 - d, x, d, k - 1, 2 * q + 1)
             ELSE DivBits(r2, x, d, k - 1, 2 * q)

\* <<a \div d, a % d>> for 0 < d <= 2^30
RECURSIVE BDivIntAt(_, _, _, _, _)
BDivIntAt(a, d, i, rem, q) ==
    IF i = 0 THEN <<BNorm(q), rem>>
    ELSE LET s == DivBits(rem, a[i], d, DigitBits, 0)
         IN  BDivIntAt(a, d, i - 1, s[2], <<s[1]>> \o q)

BDivInt(a, d) == BDivIntAt(a, d, Len(a), 0, <<>>)

\* the integer square root of t < 2^30, bit by bit from the bit 2^i
RECURSIVE NatSqrtAt(_, _, _)
NatSqrtAt(t, i, r) ==
    IF i < 0 THEN r
    ELSE IF (r + Pow2(i)) * (r + Pow2(i)) <= t
         THEN NatSqrtAt(t, i - 1, r + Pow2(i))
         ELSE NatSqrtAt(t, i - 1, r)

NatSqrt(t) == NatSqrtAt(t, 14, 0)

\* the integer square root of a, given r not below it
RECURSIVE BSqrtDown(_, _)
BSqrtDown(a, r) ==
    IF BLess(a, BMul(r, r)) THEN BSqrtDown(a, BSub(r, <<1>>)) ELSE r

\* the integer square root of a = h * W^4 for h of 4 digits, by Heron's
\* iteration x -> (x + a \div x) \div 2, which never falls below the
\* root: first for the two leading digits of h, then for h, then for a
BSqrt(a) ==
    LET h  == SubSeq(a, 5, 8)
        r2 == NatSqrt(h[4] * W + h[3])
        r4 == BSqrtDown(h, BFromNat((r2 * W + BToNat(BDivSmall(Tail(h), r2)[1])) \div 2))
        r8 == BShr(BAdd(<<0, 0>> \o r4,
                        BDivInt(SubSeq(a, 3, 8), BToNat(r4))[1]), 1)
    IN  BSqrtDown(a, r8)

\* A double is [neg, m, e], standing for (-1)^neg * m * 2^e: m = <<>> for
\* zero, otherwise m has exactly 53 bits.  Subnormal numbers, infinities
\* and NaN do not arise from pixel values.
MantBits == 53

Zero == [neg |-> FALSE, m |-> <<>>, e |-> 0]

\* the double nearest to (-1)^neg * (n + s) * 2^e, ties to even, where n
\* is a natural and 0 <= s < 1 with s > 0 exactly when sticky (sticky
\* requires n of at least 55 bits)
Round(neg, n, e, sticky) ==
    IF n = <<>> THEN Zero
    ELSE IF BitLen(n) <= MantBits
    THEN [neg |-> neg, m |-> BShl(n, MantBits - BitLen(n)),
          e |-> e - (MantBits - BitLen(n))]
    ELSE LET sh   == BitLen(n) - MantBits
             q    == BShr(n, sh)
             half == BBit(n, sh - 1) = 1
             tie  == BLowBitsZero(n, sh - 1) /\ ~sticky
             up   == half /\ (~tie \/ q[1] % 2 = 1)
             q1   == IF up THEN BAdd(q, <<1>>) ELSE q
         IN  IF BitLen(q1) > MantBits
             THEN [neg |-> neg, m |-> BShr(q1, 1), e |-> e + sh + 1]
             ELSE [neg |-> neg, m |-> q1, e |-> e + sh]

\* the integer k as a double
FFromInt(k) == Round(k < 0, BFromNat(IF k < 0 THEN 0 - k ELSE k), 0, FALSE)

FNeg(x) == IF x.m = <<>> THEN x ELSE [x EXCEPT !.neg = ~@]

FAbs(x) == [x EXCEPT !.neg = FALSE]

\* x + y
FAdd(x, y) ==
    IF x.m = <<>> THEN y
    ELSE IF y.m = <<>> THEN x
    ELSE LET e  == IF x.e < y.e THEN x.e ELSE y.e
             xm == BShl(x.m, x.e - e)
             ym == BShl(y.m, y.e - e)
         IN  IF x.neg = y.neg THEN Round(x.neg, BAdd(xm, ym), e, FALSE)
             ELSE IF BLess(xm, ym) THEN Round(y.neg, BSub(ym, xm), e, FALSE)
             ELSE Round(x.neg, BSub(xm, ym), e, FALSE)

\* x - y
FSub(x, y) == FAdd(x, FNeg(y))

\* x * y
FMul(x, y) ==
    IF x.m = <<>> \/ y.m = <<>> THEN Zero
    ELSE Round(x.neg # y.neg, BMul(x.m, y.m), x.e + y.e, FALSE)

\* x / d for an integer 0 < d < 2^16
FDivInt(x, d) ==
    IF x.m = <<>> THEN Zero
    ELSE LET qr == BDivSmall(<<0, 0>> \o x.m, d)
         IN  Round(x.neg, qr[1], x.e - 2 * DigitBits, qr[2] # 0)

\* Math.sqrt(x), x >= 0
FSqrt(x) ==
    IF x.m = <<>> THEN Zero
    ELSE LET odd == x.e % 2 = 1
             n   == <<0, 0, 0, 0>> \o (IF odd THEN BShl(x.m, 1) ELSE x.m)
             e   == (IF odd THEN x.e - 1 ELSE x.e) - 4 * DigitBits
             r   == BSqrt(n)
         IN  Round(FALSE, r, e \div 2, BMul(r, r) # n)

\* x < y
FLess(x, y) ==
    IF x.m = <<>> THEN y.m # <<>> /\ ~y.neg
    ELSE IF y.m = <<>> THEN x.neg
    ELSE IF x.neg # y.neg THEN x.neg
    ELSE IF x.neg
         THEN y.e < x.e \/ (y.e = x.e /\ BLess(y.m, x.m))
         ELSE x.e < y.e \/ (x.e = y.e /\ BLess(x.m, y.m))

\* x >= y
FGeq(x, y) == ~FLess(x, y)

\* Math.min(x, y)
FMin(x, y) == IF FLess(y, x) THEN y ELSE x

----------------------------------------------------------------------------
(* Image quality heuristic *)

\* the literals 1, 127, 0.4, 0.6: a decimal literal is the double nearest to
\* it, which for k / 10^j is the rounded quotient
One == FFromInt(1)
F127 == FFromInt(127)
Literal(k, pow10) == FDivInt(FFromInt(k), pow10)

\* (data[i] + data[i + 1] + data[i + 2]) / 3 for each of the sums 0..765
Third == [s \in 0..765 |-> FDivInt(FFromInt(s), 3)]

\* the pixel brightness of the pixel at index i of the flat RGBA buffer
PixelBrightness(data, i) == Third[data[i] + data[i + 1] + data[i + 2]]

\* the first loop "for (i = 0; i < data.length; i += 4)" of
\* calculateImageQuality: brightness += ..., from index i with the sum acc
RECURSIVE SumBrightness(_, _, _)
SumBrightness(data, i, acc) ==
    IF i > Len(data) THEN acc
    ELSE SumBrightness(data, i + 4, FAdd(acc, PixelBrightness(data, i)))

\* Math.pow(x, 2): the product x * x
Square(x) == FMul(x, x)

\* the second loop: sumSquaredDiff += Math.pow(pixelBrightness - brightness, 2)
RECURSIVE SumSquaredDiff(_, _, _, _)
SumSquaredDiff(data, brightness, i, acc) ==
    IF i > Len(data) THEN acc
    ELSE SumSquaredDiff(data, brightness, i + 4,
             FAdd(acc, Square(FSub(PixelBrightness(data, i), brightness))))

\* calculateImageQuality(imageData): the double it returns
calculateImageQuality(data) ==
    LET n               == Len(data) \div 4
        brightness      == FDivInt(SumBrightness(data, 1, Zero), n)
        sumSquaredDiff  == SumSquaredDiff(data, brightness, 1, Zero)
        contrast        == FSqrt(FDivInt(sumSquaredDiff, n))
        brightnessScore == FSub(One, FDivInt(FAbs(FSub(brightness, F127)), 127))
        contrastScore   == FMin(FDivInt(contrast, 64), One)
    IN  FAdd(FMul(brightnessScore, Literal(4, 10)),
             FMul(contrastScore, Literal(6, 10)))


Excellent == "Excellent image quality"
Good      == "Good image quality"
Fair      == "Fair image quality - consider retaking with better lighting"
Poor      == "Poor image quality - please retake with better lighting and focus"

generateQualityFeedback_exclusive(qualityScore) ==
    IF FLess(Literal(8, 10), qualityScore) THEN Excellent
    ELSE IF FLess(Literal(6, 10), qualityScore) THEN Good
    ELSE IF FLess(Literal(4, 10), qualityScore) THEN Fair
    ELSE Poor

\* generateQualityFeedback(qualityScore), qualityScore a double
generateQualityFeedback(qualityScore) ==
    IF FGeq(qualityScore, Literal(8, 10)) THEN Excellent
    ELSE IF FGeq(qualityScore, Literal(6, 10)) THEN Good
    ELSE IF FGeq(qualityScore, Literal(4, 10)) THEN Fair
    ELSE Poor

----------------------------------------------------------------------------
(* The page: fields, markup and the DOM operations on annotations *)

FullName == "full_name"
AppId    == "application_id"
Age      == "age"
DocType  == "document_type"
Photo    == "photo"

\* form.querySelectorAll('input[required], select[required]'), in document order
RequiredInputs == <<FullName, AppId, Age, DocType, Photo>>

\* form.querySelectorAll('input[type="file"]'), in document order
FileInputs == <<Photo>>

ValueFields == {FullName, AppId, Age, DocType}
Fields == ValueFields \cup {Photo}

ErrorBorder == "#e74c3c"

\* clearFieldError(field): removes the first .field-error of the field's
\* parent, if any, and resets the border.  dom is [err, border].
clearFieldError(dom, field) ==
    [dom EXCEPT !.err[field]    = IF @ # <<>> THEN Tail(@) ELSE @,
                !.border[field] = ""]

showFieldError_noClear(dom, field, message) ==
    [dom EXCEPT !.err[field]    = Append(@, message),
                !.border[field] = ErrorBorder]

\* showFieldError(field, message)
showFieldError(dom, field, message) ==
    [clearFieldError(dom, field) EXCEPT
        !.err[field]    = Append(@, message),
        !.border[field] = ErrorBorder]

\* the switch of validateField: the pair (isValid, errorMessage) it computes
\* for a field, given the field values vals and the file list fs
FieldCheck(field, vals, fs) ==
    CASE field = FullName -> CheckFullName(vals[field])
      [] field = AppId    -> CheckApplicationId(vals[field])
      [] field = Age      -> CheckAge(vals[field])
      [] field = DocType  -> CheckSelect(vals[field])
      [] field = Photo    -> CheckFile(fs)

\* validateField(field): the annotation update and the returned boolean
validateField(dom, field, vals, fs) ==
    LET r == FieldCheck(field, vals, fs)
    IN  [dom     |-> IF ~r.isValid
                     THEN showFieldError(dom, field, r.errorMessage)
                     ELSE clearFieldError(dom, field),
         isValid |-> r.isValid]

CurrentDom == [err |-> fieldError, border |-> borderColor]

SetDom(dom) ==
    /\ fieldError' = dom.err
    /\ borderColor' = dom.border

----------------------------------------------------------------------------
(* Direct calls of single functions *)

FileTypes == {"image/jpeg", "image/jpg", "image/png", "image/gif",
              "application/pdf", ""}
FileSizes == {0, 4, 1024, maxSize - 1, maxSize, maxSize + 1, 2 * maxSize}
SampleFiles == [type : FileTypes, size : FileSizes]

\* all sequences over chars of length 0..n
RECURSIVE StringsUpTo(_, _)
StringsUpTo(chars, n) ==
    IF n = 0 THEN {<<>>}
    ELSE LET shorter == StringsUpTo(chars, n - 1)
         IN  shorter \cup {Append(s, c) : s \in shorter, c \in chars}

\* s without its leading decimal digits
RECURSIVE SkipDigits(_)
SkipDigits(s) ==
    IF s # <<>> /\ Head(s) \in Digits THEN SkipDigits(Tail(s)) ELSE s

\* what the value of an input of type 'number' can be: the empty string or
\* a valid floating-point number ("-"? digits ("." digits)? or "-"? "."
\* digits, then an optional exponent); the browser replaces any other value
\* by the empty string
NumberInputValue(s) ==
    LET s1     == IF s # <<>> /\ Head(s) = "-" THEN Tail(s) ELSE s
        s2     == SkipDigits(s1)
        hasInt == Len(s2) < Len(s1)
        hasDot == s2 # <<>> /\ Head(s2) = "."
        s3     == IF hasDot THEN SkipDigits(Tail(s2)) ELSE s2
        fracOk == ~hasDot \/ Len(s3) < Len(s2) - 1
        hasExp == s3 # <<>> /\ Head(s3) \in {"e", "E"}
        s4     == IF hasExp THEN Tail(s3) ELSE s3
        s5     == IF hasExp /\ s4 # <<>> /\ Head(s4) \in {"+", "-"}
                  THEN Tail(s4) ELSE s4
        s6     == IF hasExp THEN SkipDigits(s5) ELSE s5
        expOk  == ~hasExp \/ Len(s6) < Len(s5)
    IN  \/ s = <<>>
        \/ (hasInt \/ hasDot) /\ fracOk /\ expOk /\ s6 = <<>>

AgeChars == {"0", "1", "5", "6", ".", "e", "-"}
AgeExamples == { <<"1","6",".","5">>, <<"1","0","0",".","9">>,
                 <<"1","0","1",".","5">>, <<"1","5",".","9">> }
AgeInputs == {s \in StringsUpTo(AgeChars, MaxAgeLen) \cup AgeExamples :
                NumberInputValue(s)}

NameChars == {"J", "a", "1", " ", "\f", "U+00A0"}
NameExamples == { <<"J","a","n","e"," ","D","o","e">>,
                  <<"J","a","n","e","1","2","3">>,
                  <<" ","J"," ">>, <<"J","-","D">>, <<"\t","J","o","\t">>,
                  <<"J","U+00E9">> }
NameInputs == StringsUpTo(NameChars, MaxNameLen) \cup NameExamples

ChannelValues == {0, 127, 255}
Pixels == {<<r, g, b, 255>> : r \in ChannelValues, g \in ChannelValues,
                              b \in ChannelValues}

\* all flat RGBA buffers of 1..n pixels
RECURSIVE Buffers(_)
Buffers(n) ==
    IF n = 1 THEN Pixels
    ELSE LET shorter == Buffers(n - 1)
         IN  shorter \cup {b \o p : b \in shorter, p \in Pixels}

\* scores in thousandths: q stands for the double nearest to q / 1000
ScoreInputs == (0 - ScorePad)..(1000 + ScorePad)

Pending(fn, arg) == [fn |-> fn, arg |-> arg, done |-> FALSE]
Returned(c, ret) == [fn |-> c.fn, arg |-> c.arg, done |-> TRUE, ret |-> ret]
NoCall == [fn |-> "none", done |-> FALSE]

\* the page when the constructor has run, its fields holding vals.
\* initializeWebcam requests the camera only when the page has both the
\* video element and the capture button.
PageInitWith(m, vals) ==
    /\ value = vals
    /\ fieldError = [f \in Fields |-> <<>>]
    /\ borderColor = [f \in Fields |-> ""]
    /\ files = <<>>
    /\ formError = 0
    /\ formTimers = {}
    /\ submits = 0
    /\ lastSubmit = [handled |-> FALSE]
    /\ submitDisabled = FALSE
    /\ markup = m
    /\ cam = IF m.webcam /\ m.captureBtn THEN "requested" ELSE "none"
    /\ captureDisabled = m.captureInitDisabled
    /\ webcamErrors = 0
    /\ blobs = <<>>
    /\ captures = 0
    /\ captureMsgs = 0
    /\ selections = 0
    /\ reads = {}
    /\ decodes = {}
    /\ previews = <<>>
    /\ feedback = 0
    /\ lastChange = [handled |-> FALSE]

EmptyValues == [f \in ValueFields |-> <<>>]

\* the page as loaded, every field empty
PageInit(m) == PageInitWith(m, EmptyValues)

page == <<value, fieldError, borderColor, files, formError, formTimers,
          submits, lastSubmit, submitDisabled, markup, cam, captureDisabled,
          webcamErrors, blobs, captures, captureMsgs, selections, reads,
          decodes, previews, feedback, lastChange>>

\* the elements of the page the code looks up:
\*   submitBtn            the form has a button[type="submit"]
\*   submitLabel          that button has a non-empty textContent
\*   webcam, canvas, captureBtn   the elements #webcam, #canvas, #captureBtn
\*   captureInitDisabled  #captureBtn carries the disabled attribute
\*   acceptImage          the file input carries accept="image/*"
\*   webcamSection        the page has a .webcam-section element
TypicalMarkup == [submitBtn |-> TRUE, submitLabel |-> TRUE, webcam |-> TRUE,
                  canvas |-> TRUE, captureBtn |-> TRUE,
                  captureInitDisabled |-> TRUE, acceptImage |-> TRUE,
                  webcamSection |-> TRUE]

\* a call of validateImageFile, calculateImageQuality or
\* generateQualityFeedback on the page as loaded, or a call of validateField
\* on the age or full_name field of the page, the field holding the string s
InitPure ==
    \/ /\ PageInit(TypicalMarkup)
       /\ \/ \E f \in SampleFiles : call = Pending("validateImageFile", f)
          \/ \E d \in Buffers(MaxPixels) :
                call = Pending("calculateImageQuality", d)
          \/ \E q \in ScoreInputs : call = Pending("generateQualityFeedback", q)
    \/ \E s \in AgeInputs :
          /\ PageInitWith(TypicalMarkup, [EmptyValues EXCEPT ![Age] = s])
          /\ call = Pending("validateAge", s)
    \/ \E s \in NameInputs :
          /\ PageInitWith(TypicalMarkup, [EmptyValues EXCEPT ![FullName] = s])
          /\ call = Pending("validateName", s)

CallValidateImageFile ==
    /\ call.fn = "validateImageFile" /\ ~call.done
    /\ call' = Returned(call, validateImageFile(call.arg))
    /\ UNCHANGED page

CallCalculateImageQuality ==
    /\ call.fn = "calculateImageQuality" /\ ~call.done
    /\ call' = Returned(call, calculateImageQuality(call.arg))
    /\ UNCHANGED page

CallGenerateQualityFeedback ==
    /\ call.fn = "generateQualityFeedback" /\ ~call.done
    /\ call' = Returned(call, generateQualityFeedback(Literal(call.arg, 1000)))
    /\ UNCHANGED page

\* validateField(field) on the age field: the annotation is updated and the
\* boolean returned
CallValidateAge ==
    /\ call.fn = "validateAge" /\ ~call.done
    /\ \E r \in {validateField(CurrentDom, Age, value, files)} :
           /\ SetDom(r.dom)
           /\ call' = Returned(call, r.isValid)
    /\ UNCHANGED <<value, files, formError, formTimers, submits, lastSubmit,
                   submitDisabled, markup, cam, captureDisabled, webcamErrors,
                   blobs, captures, captureMsgs, selections, reads, decodes,
                   previews, feedback, lastChange>>

\* validateField(field) on the full_name field
CallValidateName ==
    /\ call.fn = "validateName" /\ ~call.done
    /\ \E r \in {validateField(CurrentDom, FullName, value, files)} :
           /\ SetDom(r.dom)
           /\ call' = Returned(call, r.isValid)
    /\ UNCHANGED <<value, files, formError, formTimers, submits, lastSubmit,
                   submitDisabled, markup, cam, captureDisabled, webcamErrors,
                   blobs, captures, captureMsgs, selections, reads, decodes,
                   previews, feedback, lastChange>>

NextPure ==
    \/ CallValidateImageFile
    \/ CallCalculateImageQuality
    \/ CallGenerateQualityFeedback
    \/ CallValidateAge
    \/ CallValidateName

SpecPure == InitPure /\ [][NextPure]_vars

----------------------------------------------------------------------------
(* The form: input, blur and submit events *)

Lower == <<"a","b","c","d","e","f","g","h","i","j","k","l","m",
           "n","o","p","q","r","s","t","u","v","w","x","y","z">>
Upper == <<"A","B","C","D","E","F","G","H","I","J","K","L","M",
           "N","O","P","Q","R","S","T","U","V","W","X","Y","Z">>

\* the characters outside a-z whose upper case holds a character of A-Z
\* (Unicode SpecialCasing and the simple mappings of U+0131, U+017F)
SpecialUpper ==
    [c \in {"U+00DF", "U+0131", "U+0149", "U+017F", "U+01F0", "U+1E96",
            "U+1E97", "U+1E98", "U+1E99", "U+1E9A", "U+FB00", "U+FB01",
            "U+FB02", "U+FB03", "U+FB04", "U+FB05", "U+FB06"} |->
       CASE c = "U+00DF" -> <<"S", "S">>
         [] c = "U+0131" -> <<"I">>
         [] c = "U+0149" -> <<"U+02BC", "N">>
         [] c = "U+017F" -> <<"S">>
         [] c = "U+01F0" -> <<"J", "U+030C">>
         [] c = "U+1E96" -> <<"H", "U+0331">>
         [] c = "U+1E97" -> <<"T", "U+0308">>
         [] c = "U+1E98" -> <<"W", "U+030A">>
         [] c = "U+1E99" -> <<"Y", "U+030A">>
         [] c = "U+1E9A" -> <<"A", "U+02BE">>
         [] c = "U+FB00" -> <<"F", "F">>
         [] c = "U+FB01" -> <<"F", "I">>
         [] c = "U+FB02" -> <<"F", "L">>
         [] c = "U+FB03" -> <<"F", "F", "I">>
         [] c = "U+FB04" -> <<"F", "F", "L">>
         [] c = "U+FB05" -> <<"S", "T">>
         [] c = "U+FB06" -> <<"S", "T">>]

\* String.prototype.toUpperCase of one character: the characters it maps to.
\* A character that is neither a-z nor in SpecialUpper is kept: its upper
\* case is itself or another character outside ASCII.
ToUpperCase(c) ==
    IF \E i \in 1..26 : Lower[i] = c
    THEN <<Upper[CHOOSE i \in 1..26 : Lower[i] = c]>>
    ELSE IF c \in DOMAIN SpecialUpper THEN SpecialUpper[c]
    ELSE <<c>>

\* String.prototype.toUpperCase of a string
RECURSIVE UpperString(_)
UpperString(s) ==
    IF s = <<>> THEN <<>>
    ELSE ToUpperCase(Head(s)) \o UpperString(Tail(s))

\* s.replace(/[^...]/g, ''): the characters of s that are in keep
RECURSIVE KeepOnly(_, _)
KeepOnly(s, keep) ==
    IF s = <<>> THEN <<>>
    ELSE IF Head(s) \in keep THEN <<Head(s)>> \o KeepOnly(Tail(s), keep)
    ELSE KeepOnly(Tail(s), keep)

\* [a-zA-Z\s] and [A-Z0-9]
NameMaskKeeps == Letters \cup WhiteSpace
AppIdMaskKeeps == {Upper[i] : i \in 1..26} \cup Digits

\* setupInputMasks: what the 'input' listeners leave in the field
InputMask(field, typed) ==
    CASE field = FullName -> KeepOnly(typed, NameMaskKeeps)
      [] field = AppId ->
            KeepOnly(UpperString(typed), AppIdMaskKeeps)
      [] OTHER -> typed

\* what the user can type into each field
Typed(field) ==
    CASE field = FullName -> { <<>>, <<"J","o","2">> }
      [] field = AppId    -> { <<>>, <<"a","U+00DF","-","1">> }
      [] field = Age      -> { <<"1","5">>, <<"1","6">> }
      [] field = DocType  -> { <<>>, <<"i","d">> }

\* 'input' event on a text, number or select field: clearFieldError
\* (setupFormValidation), then the input mask (setupInputMasks)
Input(field, typed) ==
    /\ value' = [value EXCEPT ![field] = InputMask(field, typed)]
    /\ SetDom(clearFieldError(CurrentDom, field))
    /\ UNCHANGED <<call, files, formError, formTimers, submits, lastSubmit,
                   submitDisabled, markup, cam, captureDisabled, webcamErrors,
                   blobs, captures, captureMsgs, selections, reads, decodes,
                   previews, feedback, lastChange>>

\* 'blur' event on any input or select of the form: validateField
Blur(field) ==
    /\ SetDom(validateField(CurrentDom, field, value, files).dom)
    /\ UNCHANGED <<call, value, files, formError, formTimers, submits,
                   lastSubmit, submitDisabled, markup, cam, captureDisabled,
                   webcamErrors, blobs, captures, captureMsgs, selections,
                   reads, decodes, previews, feedback, lastChange>>

\* one pass of the first loop of validateForm: validateField on a required
\* input; acc is [dom, isValid, ran, checked]
RequiredStep(acc, field, vals, fs) ==
    LET r == validateField(acc.dom, field, vals, fs)
    IN  [acc EXCEPT !.dom     = r.dom,
                    !.isValid = @ /\ r.isValid,
                    !.ran     = Append(@, field)]

\* one pass of the second loop of validateForm: the check of a file input
FileInputStep(acc, input, fs) ==
    IF Len(fs) = 0
    THEN [acc EXCEPT !.dom     = showFieldError(@, input, MsgRequired),
                     !.isValid = FALSE,
                     !.checked = Append(@, input)]
    ELSE IF ~validateImageFile(fs[1])
    THEN [acc EXCEPT !.dom     = showFieldError(@, input, MsgFileForm),
                     !.isValid = FALSE,
                     !.checked = Append(@, input)]
    ELSE [acc EXCEPT !.checked = Append(@, input)]

validateForm_shortCircuit(dom, vals, fs) ==
    LET nReq  == Len(RequiredInputs)
        nFile == Len(FileInputs)
        loop[i \in 0..(nReq + nFile)] ==
          IF i = 0
          THEN [dom |-> dom, isValid |-> TRUE, ran |-> <<>>, checked |-> <<>>]
          ELSE IF ~loop[i - 1].isValid THEN loop[i - 1]
          ELSE IF i <= nReq
          THEN RequiredStep(loop[i - 1], RequiredInputs[i], vals, fs)
          ELSE FileInputStep(loop[i - 1], FileInputs[i - nReq], fs)
    IN  loop[nReq + nFile]

\* validateForm(form): the loop over the required inputs followed by the
\* loop over the file inputs, as one sequence of passes.  The result holds
\* the annotations left, the boolean returned (isValid), and the fields the
\* two loops visited (ran, checked).
validateForm(dom, vals, fs) ==
    LET nReq  == Len(RequiredInputs)
        nFile == Len(FileInputs)
        loop[i \in 0..(nReq + nFile)] ==
          IF i = 0
          THEN [dom |-> dom, isValid |-> TRUE, ran |-> <<>>, checked |-> <<>>]
          ELSE IF i <= nReq
          THEN RequiredStep(loop[i - 1], RequiredInputs[i], vals, fs)
          ELSE FileInputStep(loop[i - 1], FileInputs[i - nReq], fs)
    IN  loop[nReq + nFile]

\* 'submit' event of the form.  Two listeners run, in registration order:
\* the one of setupFormValidation (validateForm; on failure preventDefault
\* and showFormError, whose div is removed by a 5 s timer), then the one of
\* setupRealTimeFeedback (showLoadingState, which disables the submit
\* button when the form has a button[type="submit"]).  A disabled submit
\* button raises no further submit event.
Submit ==
    /\ submits < MaxSubmits
    /\ ~submitDisabled
    /\ \E r \in {validateForm(CurrentDom, value, files)} :
           /\ SetDom(r.dom)
           /\ submits' = submits + 1
           /\ lastSubmit' = [handled |-> TRUE, ran |-> r.ran,
                             checked |-> r.checked, prevented |-> ~r.isValid]
           /\ IF ~r.isValid
              THEN /\ formError' = submits + 1
                   /\ formTimers' = formTimers \cup {submits + 1}
              ELSE UNCHANGED <<formError, formTimers>>
    /\ submitDisabled' = IF markup.submitBtn THEN TRUE ELSE submitDisabled
    /\ UNCHANGED <<call, value, files, markup, cam, captureDisabled,
                   webcamErrors, blobs, captures, captureMsgs, selections,
                   reads, decodes, previews, feedback, lastChange>>

\* resetLoadingState(form), a public method that script.js itself never
\* calls: it returns when the form has no button[type="submit"] or the
\* button's dataset.originalText is empty (showLoadingState has not run, or
\* the button had no text), otherwise it enables the button again
ResetLoadingState ==
    /\ markup.submitBtn
    /\ markup.submitLabel /\ submits > 0
    /\ submitDisabled
    /\ submitDisabled' = FALSE
    /\ UNCHANGED <<call, value, fieldError, borderColor, files, formError,
                   formTimers, submits, lastSubmit, markup, cam,
                   captureDisabled, webcamErrors, blobs, captures, captureMsgs,
                   selections, reads, decodes, previews, feedback, lastChange>>

\* the setTimeout callback of showFormError: errorDiv.remove()
FormErrorTimeout(id) ==
    /\ id \in formTimers
    /\ formTimers' = formTimers \ {id}
    /\ formError' = IF formError = id THEN 0 ELSE formError
    /\ UNCHANGED <<call, value, fieldError, borderColor, files, submits,
                   lastSubmit, submitDisabled, markup, cam, captureDisabled,
                   webcamErrors, blobs, captures, captureMsgs, selections,
                   reads, decodes, previews, feedback, lastChange>>

----------------------------------------------------------------------------
(* The file input: selection, preview and quality analysis *)

\* files the user can pick in the file dialog
SelectableFiles == { [type |-> "image/png",       size |-> 1024],
                     [type |-> "image/jpeg",      size |-> maxSize + 1],
                     [type |-> "application/pdf", size |-> 1024] }

\* the file as held by the input; id tells the selections apart
Held(file, id) == [type |-> file.type, size |-> file.size, id |-> id]

\* the part of the page handleImageUpload works on
CurrentUpload ==
    [dom |-> CurrentDom, files |-> files, reads |-> reads,
     decodes |-> decodes, previews |-> previews]

SetUpload(st) ==
    /\ SetDom(st.dom)
    /\ files' = st.files
    /\ reads' = st.reads
    /\ decodes' = st.decodes
    /\ previews' = st.previews

handleImageUpload_keepFile(st, input) ==
    IF st.files = <<>> THEN st
    ELSE LET file == st.files[1]
         IN  IF ~validateImageFile(file)
             THEN [st EXCEPT !.dom = showFieldError(st.dom, input, MsgFileBlur)]
             ELSE [st EXCEPT
                     !.previews = IF @ # <<>> THEN Tail(@) ELSE @,
                     !.reads    = @ \cup {file.id},
                     !.decodes  = @ \cup {file.id},
                     !.dom      = clearFieldError(st.dom, input)]

\* handleImageUpload(input), the 'change' listener of the file input.
\* A rejected file: showFieldError and input.value = ''.  An accepted file:
\* showImagePreview removes the existing preview and starts a FileReader,
\* analyzeImageQuality starts an Image decode, then clearFieldError.
handleImageUpload(st, input) ==
    IF st.files = <<>> THEN st
    ELSE LET file == st.files[1]
         IN  IF ~validateImageFile(file)
             THEN [st EXCEPT !.dom = showFieldError(st.dom, input, MsgFileBlur),
                             !.files = <<>>]
             ELSE [st EXCEPT
                     !.previews = IF @ # <<>> THEN Tail(@) ELSE @,
                     !.reads    = @ \cup {file.id},
                     !.decodes  = @ \cup {file.id},
                     !.dom      = clearFieldError(st.dom, input)]

\* a selection in the file dialog: the browser replaces input.files and
\* fires 'input' (clearFieldError, setupFormValidation) and then 'change'
\* (handleImageUpload, setupImageProcessing)
SelectionOutcome(st, fs) ==
    handleImageUpload([st EXCEPT !.dom = clearFieldError(st.dom, Photo),
                                 !.files = fs], Photo)

\* the user picks a file in the file dialog
ManualSelect(file) ==
    /\ selections < MaxSelections
    /\ LET held == Held(file, selections + 1)
       IN  /\ SetUpload(SelectionOutcome(CurrentUpload, <<held>>))
           /\ lastChange' = [handled |-> TRUE, source |-> "manual",
                             injected |-> <<held>>]
    /\ selections' = selections + 1
    /\ UNCHANGED <<call, value, formError, formTimers, submits, lastSubmit,
                   submitDisabled, markup, cam, captureDisabled, webcamErrors,
                   blobs, captures, captureMsgs, feedback>>

\* the user empties the selection in the file dialog
ManualClear ==
    /\ files # <<>>
    /\ SetUpload(SelectionOutcome(CurrentUpload, <<>>))
    /\ lastChange' = [handled |-> TRUE, source |-> "manual", injected |-> <<>>]
    /\ UNCHANGED <<call, value, formError, formTimers, submits, lastSubmit,
                   submitDisabled, markup, cam, captureDisabled, webcamErrors,
                   blobs, captures, captureMsgs, selections, feedback>>

\* reader.onload of showImagePreview: appends a preview div
ReaderLoad(id) ==
    /\ id \in reads
    /\ reads' = reads \ {id}
    /\ previews' = Append(previews, id)
    /\ UNCHANGED <<call, value, fieldError, borderColor, files, formError,
                   formTimers, submits, lastSubmit, submitDisabled, markup,
                   cam, captureDisabled, webcamErrors, blobs, captures,
                   captureMsgs, selections, decodes, feedback, lastChange>>

\* img.onload of analyzeImageQuality: the promise resolves and
\* showQualityFeedback replaces the displayed feedback
ImgLoad(id) ==
    /\ id \in decodes
    /\ decodes' = decodes \ {id}
    /\ feedback' = id
    /\ UNCHANGED <<call, value, fieldError, borderColor, files, formError,
                   formTimers, submits, lastSubmit, submitDisabled, markup,
                   cam, captureDisabled, webcamErrors, blobs, captures,
                   captureMsgs, selections, reads, previews, lastChange>>

\* the file does not decode as an image: img.onload never fires and the
\* promise of analyzeImageQuality stays pending
ImgError(id) ==
    /\ id \in decodes
    /\ decodes' = decodes \ {id}
    /\ UNCHANGED <<call, value, fieldError, borderColor, files, formError,
                   formTimers, submits, lastSubmit, submitDisabled, markup,
                   cam, captureDisabled, webcamErrors, blobs, captures,
                   captureMsgs, selections, reads, previews, feedback,
                   lastChange>>

----------------------------------------------------------------------------
(* The webcam: stream request and capture *)

\* byte sizes of the JPEG a frame of the live stream encodes to
FrameSizes == {204800, maxSize + 1}

NullBlob == [null |-> TRUE, size |-> 0]
JpegBlob(size) == [null |-> FALSE, size |-> size]

\* canvas.toBlob of the canvas sized to video.videoWidth x videoHeight:
\* a JPEG when the video shows frames of a stream, null when the canvas has
\* no pixels (no stream, or no frame of it yet)
BlobsOf(c) ==
    IF c = "active" THEN {JpegBlob(n) : n \in FrameSizes} \cup {NullBlob}
    ELSE {NullBlob}

\* new File([blob], 'webcam_capture.jpg', {type: 'image/jpeg'}); a null
\* blob part is converted to the string "null", 4 bytes
FileOfBlob(blob) ==
    [type |-> "image/jpeg", size |-> IF blob.null THEN 4 ELSE blob.size]

\* getUserMedia resolves: video.srcObject = stream, captureBtn enabled
StreamGranted ==
    /\ cam = "requested"
    /\ cam' = "active"
    /\ captureDisabled' = FALSE
    /\ UNCHANGED <<call, value, fieldError, borderColor, files, formError,
                   formTimers, submits, lastSubmit, submitDisabled, markup,
                   webcamErrors, blobs, captures, captureMsgs, selections,
                   reads, decodes, previews, feedback, lastChange>>

\* getUserMedia rejects: showWebcamError, which appends the message only
\* when the page has a .webcam-section element
StreamDenied ==
    /\ cam = "requested"
    /\ cam' = "error"
    /\ webcamErrors' = IF markup.webcamSection THEN webcamErrors + 1
                       ELSE webcamErrors
    /\ UNCHANGED <<call, value, fieldError, borderColor, files, formError,
                   formTimers, submits, lastSubmit, submitDisabled, markup,
                   captureDisabled, blobs, captures, captureMsgs, selections,
                   reads, decodes, previews, feedback, lastChange>>

\* 'click' on the capture button (a disabled button raises no click):
\* captureWebcamPhoto returns at once when the page has no #webcam or no
\* #canvas, otherwise it draws the video frame and queues canvas.toBlob
CaptureClick ==
    /\ markup.captureBtn
    /\ ~captureDisabled
    /\ markup.webcam /\ markup.canvas
    /\ captures < MaxCaptures
    /\ \E blob \in BlobsOf(cam) : blobs' = Append(blobs, blob)
    /\ captures' = captures + 1
    /\ UNCHANGED <<call, value, fieldError, borderColor, files, formError,
                   formTimers, submits, lastSubmit, submitDisabled, markup,
                   cam, captureDisabled, webcamErrors, captureMsgs,
                   selections, reads, decodes, previews, feedback, lastChange>>

InjectionOutcome_noDispatch(st, fs) ==
    [st EXCEPT !.files = fs]

\* if (this.fileInput) { fileInput.files = dataTransfer.files;
\* dispatchEvent(new Event('change')) }: only the 'change' listener runs.
\* this.fileInput is the file input carrying accept="image/*", if any.
InjectionOutcome(st, fs) ==
    IF ~markup.acceptImage THEN st
    ELSE handleImageUpload([st EXCEPT !.files = fs], Photo)

RemoveAt(seq, i) == SubSeq(seq, 1, i - 1) \o SubSeq(seq, i + 1, Len(seq))

\* the toBlob callback of captureWebcamPhoto: the blob becomes a File; when
\* the page has the image file input, the File is put into it and 'change'
\* is dispatched; then showCaptureSuccess displays a message for 3 s
BlobReady(i) ==
    /\ i \in 1..Len(blobs)
    /\ IF markup.acceptImage
       THEN /\ selections < MaxSelections
            /\ selections' = selections + 1
            /\ LET held == Held(FileOfBlob(blobs[i]), selections + 1)
               IN  /\ SetUpload(InjectionOutcome(CurrentUpload, <<held>>))
                   /\ lastChange' = [handled |-> TRUE, source |-> "capture",
                                     injected |-> <<held>>, blob |-> blobs[i],
                                     cam |-> cam]
       ELSE /\ SetUpload(InjectionOutcome(CurrentUpload, <<>>))
            /\ UNCHANGED <<selections, lastChange>>
    /\ blobs' = RemoveAt(blobs, i)
    /\ captureMsgs' = captureMsgs + 1
    /\ UNCHANGED <<call, value, formError, formTimers, submits, lastSubmit,
                   submitDisabled, markup, cam, captureDisabled, webcamErrors,
                   captures, feedback>>

\* the setTimeout callback of showCaptureSuccess: successMsg.remove()
CaptureMsgTimeout ==
    /\ captureMsgs > 0
    /\ captureMsgs' = captureMsgs - 1
    /\ UNCHANGED <<call, value, fieldError, borderColor, files, formError,
                   formTimers, submits, lastSubmit, submitDisabled, markup,
                   cam, captureDisabled, webcamErrors, blobs, captures,
                   selections, reads, decodes, previews, feedback, lastChange>>

----------------------------------------------------------------------------
(* The page as a whole *)

\* every page markup; a component that describes an absent button is
\* immaterial and fixed
Markups ==
    {m \in [submitBtn : BOOLEAN, submitLabel : BOOLEAN, webcam : BOOLEAN,
            canvas : BOOLEAN, captureBtn : BOOLEAN,
            captureInitDisabled : BOOLEAN, acceptImage : BOOLEAN,
            webcamSection : BOOLEAN] :
        /\ m.submitBtn \/ ~m.submitLabel
        /\ m.captureBtn \/ m.captureInitDisabled}

Init ==
    /\ call = NoCall
    /\ \E m \in Markups : PageInit(m)

Next ==
    \/ \E f \in ValueFields : \E t \in Typed(f) : Input(f, t)
    \/ \E f \in Fields : Blur(f)
    \/ Submit
    \/ ResetLoadingState
    \/ \E id \in 1..MaxSubmits : FormErrorTimeout(id)
    \/ \E f \in SelectableFiles : ManualSelect(f)
    \/ ManualClear
    \/ \E id \in 1..MaxSelections : ReaderLoad(id)
    \/ \E id \in 1..MaxSelections : ImgLoad(id)
    \/ \E id \in 1..MaxSelections : ImgError(id)
    \/ StreamGranted
    \/ StreamDenied
    \/ CaptureClick
    \/ \E i \in 1..MaxCaptures : BlobReady(i)
    \/ CaptureMsgTimeout

\* The whole page.  SpecForm and SpecCapture below are its restrictions to
\* the form events and to the file input and webcam events, small enough to
\* explore exhaustively.
Spec == Init /\ [][Next]_vars

\* The form events alone, on a page whose webcam markup is the typical one;
\* the file input is used at most MaxFormSelections times
InitForm ==
    /\ call = NoCall
    /\ \E m \in Markups :
          /\ m.webcam /\ m.canvas /\ m.captureBtn /\ m.captureInitDisabled
          /\ m.acceptImage /\ m.webcamSection
          /\ PageInit(m)

NextForm ==
    \/ \E f \in ValueFields : \E t \in Typed(f) : Input(f, t)
    \/ \E f \in Fields : Blur(f)
    \/ Submit
    \/ ResetLoadingState
    \/ \E id \in 1..MaxSubmits : FormErrorTimeout(id)
    \/ selections < MaxFormSelections /\ \E f \in SelectableFiles : ManualSelect(f)
    \/ ManualClear

SpecForm == InitForm /\ [][NextForm]_vars

\* The file input and the webcam alone, the other fields left as loaded
InitCapture ==
    /\ call = NoCall
    /\ \E m \in Markups : m.submitBtn /\ m.submitLabel /\ PageInit(m)

NextCapture ==
    \/ Blur(Photo)
    \/ \E f \in SelectableFiles : ManualSelect(f)
    \/ ManualClear
    \/ \E id \in 1..MaxSelections : ReaderLoad(id)
    \/ \E id \in 1..MaxSelections : ImgLoad(id)
    \/ \E id \in 1..MaxSelections : ImgError(id)
    \/ StreamGranted
    \/ StreamDenied
    \/ CaptureClick
    \/ \E i \in 1..MaxCaptures : BlobReady(i)
    \/ CaptureMsgTimeout

SpecCapture == InitCapture /\ [][NextCapture]_vars

----------------------------------------------------------------------------
(* Properties *)

\* the file constraint as the specification words it
AcceptableImage(file) ==
    /\ file.type \in {"image/jpeg", "image/jpg", "image/png"}
    /\ file.size <= 5242880

\* the submit event would fail a validator in the current state
SomeValidatorFails ==
    \/ \E i \in 1..Len(RequiredInputs) :
          ~FieldCheck(RequiredInputs[i], value, files).isValid
    \/ files = <<>>
    \/ ~AcceptableImage(files[1])

\* C1: every submit event runs validateField on every required input and
\* the file check on every file input, without stopping at a failure; the
\* submission is prevented and a form-level error is shown exactly when one
\* of them fails, otherwise the submit shows no form-level error.
C1_SubmitRunsAllValidators ==
    [][submits' = submits + 1 =>
         /\ lastSubmit'.ran = RequiredInputs
         /\ lastSubmit'.checked = FileInputs
         /\ \A f \in ValueFields :
               LET r == FieldCheck(f, value, files)
               IN  fieldError'[f] =
                     IF r.isValid THEN <<>> ELSE <<r.errorMessage>>
         /\ lastSubmit'.prevented = SomeValidatorFails
         /\ SomeValidatorFails =>
               /\ formError' = submits'
               /\ formError' \in formTimers'
         /\ ~SomeValidatorFails =>
               /\ formError' = formError
               /\ formTimers' = formTimers]_vars

\* a blocked submit on which two validators failed, both annotated
C1_Witness ==
    /\ lastSubmit.handled
    /\ lastSubmit.prevented
    /\ formError = submits
    /\ fieldError[FullName] = <<MsgNameShort>>
    /\ fieldError[Age] = <<MsgAge>>
    /\ fieldError[Photo] = <<MsgRequired>>

\* C2: validateImageFile returns true exactly when the type is image/jpeg,
\* image/jpg or image/png and the size is at most 5 MiB.
C2_ImageFileAccepted ==
    (call.fn = "validateImageFile" /\ call.done) =>
        (call.ret <=> AcceptableImage(call.arg))

\* a file of exactly 5 MiB and an allowed type, accepted
C2_Witness ==
    /\ call.fn = "validateImageFile" /\ call.done
    /\ call.arg = [type |-> "image/jpg", size |-> 5242880]
    /\ call.ret = TRUE

\* a change event of the file input raised by the capture pipeline
CaptureDelivered ==
    /\ selections' = selections + 1
    /\ lastChange'.source = "capture"

\* C3: once the camera request has failed, the stream is never started, the
\* capture pipeline never populates the file input, and a webcam error
\* message is displayed.
C3_DenialBlocksCapture ==
    /\ [](cam = "error" => webcamErrors > 0)
    /\ [][cam = "error" => (cam' = "error" /\ ~CaptureDelivered)]_vars

\* C4: on a page whose file input accepts image/*, every completed capture
\* puts exactly one image/jpeg file into the file input and the page then
\* is in the state a manual selection of that file gives.
C4_CaptureHandledAsSelection ==
    [][(captureMsgs' = captureMsgs + 1 /\ markup.acceptImage) =>
         LET inj == lastChange'.injected
             exp == SelectionOutcome(CurrentUpload, inj)
         IN  /\ CaptureDelivered
             /\ Len(inj) = 1
             /\ inj[1].type = "image/jpeg"
             /\ files' = exp.files
             /\ fieldError' = exp.dom.err
             /\ borderColor' = exp.dom.border
             /\ reads' = exp.reads
             /\ decodes' = exp.decodes
             /\ previews' = exp.previews
             /\ feedback' = feedback]_vars

\* a frame of the active stream was captured and is held by the input,
\* its preview and analysis started
C4_Witness ==
    /\ lastChange.handled
    /\ lastChange.source = "capture"
    /\ ~lastChange.blob.null
    /\ files = lastChange.injected
    /\ files[1].id \in reads
    /\ files[1].id \in decodes

\* C5: the quality score of every non-empty RGBA buffer lies in [0, 1].
C5_ScoreInUnitInterval ==
    (call.fn = "calculateImageQuality" /\ call.done) =>
        (FGeq(call.ret, Zero) /\ FGeq(One, call.ret))

\* C6: the band of a score: Excellent from 0.8, Good from 0.6, Fair from
\* 0.4, Poor below, each lower bound inclusive.
C6_BandsInclusiveBelow ==
    (call.fn = "generateQualityFeedback" /\ call.done) =>
        LET q == call.arg
        IN  /\ q >= 800 => call.ret = Excellent
            /\ (600 <= q /\ q < 800) => call.ret = Good
            /\ (400 <= q /\ q < 600) => call.ret = Fair
            /\ q < 400 => call.ret = Poor
            /\ Cardinality({b \in {Excellent, Good, Fair, Poor} :
                              call.ret = b}) = 1

\* the score exactly on a threshold falls in the upper band
C6_Witness ==
    /\ call.fn = "generateQualityFeedback" /\ call.done
    /\ call.arg = 600
    /\ call.ret = Good

\* an optional sign followed by decimal digits and nothing else
IsIntegerLiteral(s) ==
    LET body == IF s # <<>> /\ Head(s) \in {"+", "-"} THEN Tail(s) ELSE s
    IN  /\ body # <<>>
        /\ \A i \in 1..Len(body) : body[i] \in Digits

IntegerLiteralValue(s) ==
    LET body == IF Head(s) \in {"+", "-"} THEN Tail(s) ELSE s
        n    == ParseDigits(body, 10, 0)
    IN  IF Head(s) = "-" THEN 0 - n ELSE n

\* C7: the age validator accepts a value exactly when it is an integer in
\* [16, 100]; a value that is not wholly an integer is invalid.
C7_AgeAcceptsExactlyIntegers ==
    (call.fn = "validateAge" /\ call.done) =>
        LET v == Trim(call.arg)
        IN  call.ret <=>
              /\ IsIntegerLiteral(v)
              /\ IntegerLiteralValue(v) >= 16
              /\ IntegerLiteralValue(v) <= 100

\* C8: the full_name validator accepts a value exactly when, trimmed, it has
\* at least 2 characters, all letters or white space; a too-short value is
\* reported as too short whatever its characters.
C8_NameRule ==
    (call.fn = "validateName" /\ call.done) =>
        LET v       == Trim(call.arg)
            letters == \A i \in 1..Len(v) : v[i] \in Letters \cup WhiteSpace
        IN  /\ call.ret <=> (Len(v) >= 2 /\ letters)
            /\ call.ret => fieldError[FullName] = <<>>
            /\ Len(v) < 2 => fieldError[FullName] = <<MsgNameShort>>
            /\ (Len(v) >= 2 /\ ~letters) =>
                   fieldError[FullName] = <<MsgNameChars>>

\* a one-character value that is not a letter, reported as too short
C8_Witness ==
    /\ call.fn = "validateName" /\ call.done
    /\ call.arg = <<"1">>
    /\ ~call.ret
    /\ fieldError[FullName] = <<MsgNameShort>>

\* C9: a field carries at most one inline error annotation; right after
\* validateField the annotation is present exactly when the field is
\* invalid, and an input event on the field clears it.
\* (The second conjunct is "Blur(f) => the annotation is the verdict's" and
\* the third "Input(f, t) => no annotation".  Each is written so that the
\* event is only evaluated on the steps that could be it: a blur of f that
\* changes the page changes the annotation or the border of f and nothing
\* of another field; an input event that leaves an annotation leaves the
\* files, the submit count and the other annotations as they were.)
C9_OneAnnotationPerField ==
    /\ [](\A f \in Fields : Len(fieldError[f]) <= 1)
    /\ [][\A f \in Fields :
            (/\ fieldError'[f] # fieldError[f] \/ borderColor'[f] # borderColor[f]
             /\ value' = value /\ files' = files /\ submits' = submits
             /\ \A g \in Fields \ {f} : fieldError'[g] = fieldError[g]
             /\ Blur(f)) =>
              LET r == FieldCheck(f, value, files)
              IN  fieldError'[f] =
                    IF r.isValid THEN <<>> ELSE <<r.errorMessage>>]_vars
    /\ [][\A f \in ValueFields :
            ~(/\ fieldError'[f] # <<>>
              /\ files' = files /\ submits' = submits
              /\ \A g \in Fields \ {f} : fieldError'[g] = fieldError[g]
              /\ \E t \in Typed(f) : Input(f, t))]_vars

\* after a submit, the age field holds 15 and carries exactly one annotation
C9_Witness ==
    /\ lastSubmit.handled
    /\ value[Age] = <<"1", "5">>
    /\ fieldError[Age] = <<MsgAge>>
    /\ borderColor[Age] = ErrorBorder

\* C10: after a change event of the file input the input is empty or holds
\* an acceptable file; a file failing the check is removed from the input
\* and annotated, and no preview or quality analysis is started for it.
C10_RejectedFileDropped ==
    /\ [](files = <<>> \/ AcceptableImage(files[1]))
    /\ [][(selections' = selections + 1
             /\ ~AcceptableImage(lastChange'.injected[1])) =>
            /\ files' = <<>>
            /\ fieldError'[Photo] = <<MsgFileBlur>>
            /\ reads' = reads
            /\ decodes' = decodes
            /\ previews' = previews
            /\ feedback' = feedback]_vars

\* an oversized frame captured from the stream, rejected
C10_Witness ==
    /\ lastChange.handled
    /\ lastChange.source = "capture"
    /\ lastChange.injected[1].size > 5242880
    /\ files = <<>>
    /\ fieldError[Photo] = <<MsgFileBlur>>
    /\ reads = {} /\ decodes = {}

\* C11: a later selection supersedes the pending quality computation of an
\* earlier one: when the decode of an earlier selection a completes after
\* the feedback of a later selection b is displayed, the displayed feedback
\* stays the one of b, so that once both decodes have completed the
\* feedback shown is that of the most recently selected file.
C11_LatestSelectionFeedback ==
    [][\A a \in 1..MaxSelections, b \in 1..MaxSelections :
         (a < b /\ a \in decodes /\ b \notin decodes /\ feedback = b
            /\ a \notin decodes') => feedback' = b]_vars

\* C12: the submit button is disabled only by a submit whose validators
\* all pass; a submit blocked by a failing validator leaves it enabled, and
\* so it is enabled in every state whose last submit was blocked.
C12_OnlyPassingSubmitDisables ==
    /\ [][(~submitDisabled /\ submitDisabled') =>
             (submits' = submits + 1 /\ ~lastSubmit'.prevented)]_vars
    /\ [][(submits' = submits + 1 /\ lastSubmit'.prevented) =>
             ~submitDisabled']_vars
    /\ []((lastSubmit.handled /\ lastSubmit.prevented) => ~submitDisabled)

\* C13: the file input has at most one preview attached, and when no file
\* read is pending and the input holds an accepted file, the preview is the
\* one of that file, the most recently selected.
C13_SinglePreviewOfLatest ==
    /\ Len(previews) <= 1
    /\ (reads = {} /\ files # <<>>) => previews = <<files[1].id>>

====
